---- MODULE Spec2Model ----
(***************************************************************************)
(* A model of Gherkin Auto-Complete Plus: the feature-file parser          *)
(* (utilities/gherkin_parser.py) and the Sublime Text event listener       *)
(* (gherkin_event_listener.py).                                            *)
(*                                                                         *)
(* A Python str is modelled as a sequence of one-character strings, so     *)
(* that splitting, stripping, lower-casing, regular-expression scanning    *)
(* and str.replace are computed character by character as the code does.   *)
(***************************************************************************)
EXTENDS Integers, Sequences, FiniteSets, TLC

VARIABLES
    n_steps,        \* format_steps: the argument `steps`
    n_once,         \* format_steps: the set returned by the first call
    n_twice,        \* format_steps: the set returned by a call on n_once
    n_pc,           \* "in" | "once" | "twice"
    m_step_words,   \* _step_matches_line: the argument step_words
    m_line_words,   \* _step_matches_line: the argument line_words
    m_result,       \* _step_matches_line: the value returned
    m_pc,           \* "in" | "done"
    p_file,         \* get_steps: index of the file being read (0 before the first)
    p_read,         \* get_steps: the lines read from that file so far
    p_last,         \* get_steps: last_main_word
    p_steps,        \* get_steps: the set `steps`
    p_open,         \* get_steps: the files it has opened and not closed
    p_pc,           \* "next" | "lines" | "returned" | "raised"
    s_step,         \* _format_step: the argument step
    s_line_words,   \* _format_step: the argument line_words
    s_result,       \* _format_step: the value returned
    s_pc,           \* "in" | "done"
    steps,          \* the module-level list `steps`: the step catalog
    completions,    \* the module-level dict `completions`: step -> suggestion
    first_modify,   \* self.first_modify
    has_level,      \* whether self._logging_level has been assigned
    disk,           \* the feature files of the target directories, as lines
    host_error,     \* whether sublime.error_message has been called
    returned,       \* the list on_query_completions returned for the last edit
    main_pc,        \* on_modified on the main thread:
                    \*   "idle" | "update" | "extend" | "edit" | "fill" | "ret"
    l_view,         \* on_modified: the view, <<lines, row of the cursor>>
    l_next,         \* on_modified: next_char, the character before the cursor
    l_words,        \* _fill_completions: current_line_words
    l_keyword,      \* _fill_completions: last_keyword
    l_idx,          \* _fill_completions: the position of `for ... in steps`
    a_pc,           \* on_post_save_async on the async thread: "idle" | "extend"
    k_view,         \* keyword lookup: the view, <<lines, row of the cursor>>
    k_keyword,      \* keyword lookup: last_keyword
    k_pc            \* "in" | "done"

n_vars == <<n_steps, n_once, n_twice, n_pc>>
m_vars == <<m_step_words, m_line_words, m_result, m_pc>>
p_vars == <<p_file, p_read, p_last, p_steps, p_open, p_pc>>
s_vars == <<s_step, s_line_words, s_result, s_pc>>
e_vars == <<steps, completions, first_modify, has_level, disk, host_error, returned,
            main_pc, l_view, l_next, l_words, l_keyword, l_idx, a_pc>>
k_vars == <<k_view, k_keyword, k_pc>>

vars == <<n_vars, m_vars, p_vars, s_vars, e_vars, k_vars>>

\* A component that takes no part in a specification stays as it is here
NormIdle == n_steps = {} /\ n_once = {} /\ n_twice = {} /\ n_pc = "off"
MatchIdle ==
    m_step_words = <<>> /\ m_line_words = <<>> /\ m_result = FALSE /\ m_pc = "off"
ParseIdle ==
    /\ p_file = 0 /\ p_read = <<>> /\ p_last = <<>>
    /\ p_steps = {} /\ p_open = {} /\ p_pc = "off"
SnippetIdle ==
    s_step = <<>> /\ s_line_words = <<>> /\ s_result = <<>> /\ s_pc = "off"
ListenerIdle ==
    /\ steps = <<>> /\ completions = <<>> /\ first_modify = TRUE /\ has_level = FALSE
    /\ disk = <<>> /\ host_error = FALSE /\ returned = <<>> /\ main_pc = "off"
    /\ l_view = <<>> /\ l_next = "" /\ l_words = <<>> /\ l_keyword = <<>> /\ l_idx = 0
    /\ a_pc = "off"
KeywordIdle == k_view = <<>> /\ k_keyword = <<>> /\ k_pc = "off"

-----------------------------------------------------------------------------
(* Characters and strings                                                  *)

DQ == "\""
SQ == "'"
LT == "<"
GT == ">"
DOT == "."
SP == " "
TAB == "\t"

Digits == {"0", "1", "2", "3", "4", "5", "6", "7", "8", "9"}

Whitespace == {SP, TAB, "\n"}

Upper == <<"A","B","C","D","E","F","G","H","I","J","K","L","M",
           "N","O","P","Q","R","S","T","U","V","W","X","Y","Z">>
Lower == <<"a","b","c","d","e","f","g","h","i","j","k","l","m",
           "n","o","p","q","r","s","t","u","v","w","x","y","z">>

\* str.lower() on one character
LowerChar(c) ==
    IF \E i \in 1..Len(Upper) : Upper[i] = c
    THEN Lower[CHOOSE i \in 1..Len(Upper) : Upper[i] = c]
    ELSE c

\* str.lower()
LowerStr(s) == [i \in 1..Len(s) |-> LowerChar(s[i])]

Min(S) == CHOOSE x \in S : \A y \in S : x <= y
Max(S) == CHOOSE x \in S : \A y \in S : x >= y

\* s[i:] with a 1-based i
From(s, i) == SubSeq(s, i, Len(s))

\* str.lstrip(), str.rstrip(), str.strip()
LStrip(s) ==
    LET keep == {i \in 1..Len(s) : s[i] \notin Whitespace}
    IN  IF keep = {} THEN <<>> ELSE From(s, Min(keep))
RStrip(s) ==
    LET keep == {i \in 1..Len(s) : s[i] \notin Whitespace}
    IN  IF keep = {} THEN <<>> ELSE SubSeq(s, 1, Max(keep))
Strip(s) == RStrip(LStrip(s))

\* All sequences over A of length 0..n
SeqsUpTo(A, n) == UNION {[1..k -> A] : k \in 0..n}

\* The position of the first occurrence of word in body, 0 when there is none
\* (str.find() + 1)
Find(body, word) ==
    LET hits == {p \in 1..(Len(body) - Len(word) + 1) :
                    SubSeq(body, p, p + Len(word) - 1) = word}
    IN  IF hits = {} THEN 0 ELSE Min(hits)

\* body.replace(word, token, 1): the FIRST occurrence of word, wherever it is
Replace1(body, word, token) ==
    LET p == Find(body, word)
    IN  IF p = 0 THEN body
        ELSE SubSeq(body, 1, p - 1) \o token \o From(body, p + Len(word))

\* str.split(): the words between runs of whitespace
RECURSIVE SplitWS(_)
SplitWS(s) ==
    LET t == LStrip(s)
    IN  IF t = <<>> THEN <<>>
        ELSE LET ws == {i \in 1..Len(t) : t[i] \in Whitespace}
                 e == IF ws = {} THEN Len(t) ELSE Min(ws) - 1
             IN  <<SubSeq(t, 1, e)>> \o SplitWS(From(t, e + 1))

\* ' '.join(words)
RECURSIVE JoinSP(_)
JoinSP(words) ==
    IF words = <<>> THEN <<>>
    ELSE IF Len(words) = 1 THEN words[1]
    ELSE words[1] \o <<SP>> \o JoinSP(Tail(words))

-----------------------------------------------------------------------------
(* gherkin_parser.py: GherkinParser.format_steps                            *)

\* The canonical replacement tokens of format_steps
TokDQ == <<DQ, "i", "n", "p", "u", "t", DQ>>
TokSQ == <<SQ, "i", "n", "p", "u", "t", SQ>>
TokAngle == <<LT, "i", "n", "p", "u", "t", GT>>
TokNumber == <<"[", "n", "u", "m", "b", "e", "r", "]">>

\* The end of the greedy digit run \d* that starts at position i (i - 1 when
\* s[i] is no digit)
RECURSIVE DigitsEnd(_, _)
DigitsEnd(s, i) ==
    IF i <= Len(s) /\ s[i] \in Digits THEN DigitsEnd(s, i + 1) ELSE i - 1

\* open .+? close at position i: the nearest close at least two further on
\* (0 when there is none)
DelimitedEnd(s, i, close) ==
    LET ends == {j \in (i + 2)..Len(s) : s[j] = close}
    IN  IF ends = {} THEN 0 ELSE Min(ends)

\* The last position of the match of the format_steps regex that starts at
\* position i, 0 when the regex does not match there. The alternatives are
\* tried in the order the pattern lists them.
NormMatchEnd(s, i) ==
    IF s[i] = DQ THEN DelimitedEnd(s, i, DQ)
    ELSE IF s[i] = SQ THEN DelimitedEnd(s, i, SQ)
    ELSE IF s[i] = LT THEN DelimitedEnd(s, i, GT)
    ELSE IF s[i] \in Digits THEN
        LET k == DigitsEnd(s, i)
        IN  IF k < Len(s) /\ s[k + 1] = DOT THEN DigitsEnd(s, k + 2) ELSE k
    ELSE IF s[i] = DOT /\ i < Len(s) /\ s[i + 1] \in Digits THEN
        DigitsEnd(s, i + 1)
    ELSE 0

\* re.findall(regex, body) from position i on: the non-overlapping matches,
\* left to right
RECURSIVE NormFindAll(_, _)
NormFindAll(s, i) ==
    IF i > Len(s) THEN <<>>
    ELSE LET e == NormMatchEnd(s, i)
         IN  IF e = 0 THEN NormFindAll(s, i + 1)
             ELSE <<SubSeq(s, i, e)>> \o NormFindAll(s, e + 1)

\* The token the if/elif chain of format_steps picks for a matched word
NormToken(word) ==
    IF word[1] = DQ THEN TokDQ
    ELSE IF word[1] = SQ THEN TokSQ
    ELSE IF word[1] = LT THEN TokAngle
    ELSE TokNumber

\* One iteration of `for word in replace_values`
NormReplaceWord(body, word) ==
    IF word = <<>> THEN body
    ELSE IF word[1] \in {DQ, SQ, LT} \cup Digits \cup {DOT}
         THEN Replace1(body, word, NormToken(word))
         ELSE body

\* The whole loop over replace_values, from word k on
RECURSIVE NormReplaceAll(_, _, _)
NormReplaceAll(body, words, k) ==
    IF k > Len(words) THEN body
    ELSE NormReplaceAll(NormReplaceWord(body, words[k]), words, k + 1)

\* The body format_steps adds for a step with this body
NormBody(body) == NormReplaceAll(body, NormFindAll(body, 1), 1)

\* format_steps(steps)
format_steps(raw_steps) == {<<st[1], NormBody(st[2])>> : st \in raw_steps}

-----------------------------------------------------------------------------
(* Keywords                                                                *)

Given == <<"g", "i", "v", "e", "n">>
When == <<"w", "h", "e", "n">>
Then == <<"t", "h", "e", "n">>
And == <<"a", "n", "d">>
But == <<"b", "u", "t">>

\* gherkin_event_listener.py `keywords`, gherkin_parser.py `main_words`
keywords == {Given, When, Then}
\* gherkin_parser.py `extra_words`
extra_words == {And, But}

-----------------------------------------------------------------------------
(* gherkin_parser.py: GherkinParser.get_steps                               *)

\* line.split(maxsplit=1): nothing, the first word, or the first word and
\* the rest of the line after the whitespace that follows it
Split1(line) ==
    LET t == LStrip(line)
        ws == {i \in 1..Len(t) : t[i] \in Whitespace}
        e == IF ws = {} THEN Len(t) ELSE Min(ws) - 1
        rest == LStrip(From(t, e + 1))
    IN  IF t = <<>> THEN <<>>
        ELSE IF rest = <<>> THEN <<SubSeq(t, 1, e)>>
        ELSE <<SubSeq(t, 1, e), rest>>

\* An assignment that takes every keyword, and/but too, as the last main word
MainWordOfAnyKeyword(first_word, last_main_word) ==
    IF first_word \in keywords \cup extra_words THEN first_word ELSE last_main_word

\* last_main_word after the if/elif/else on first_word
MainWordAfter(first_word, last_main_word) ==
    IF first_word \in keywords THEN first_word ELSE last_main_word

\* last_main_word after one iteration of `for line in file.readlines()`
LastMainWordAfter(line, last_main_word) ==
    LET line_split == Split1(line)
    IN  IF Len(line_split) < 2 THEN last_main_word
        ELSE MainWordAfter(LowerStr(line_split[1]), last_main_word)

\* The records one iteration adds to `steps`
StepsOfLine(line, last_main_word) ==
    LET line_split == Split1(line)
        first_word == LowerStr(line_split[1])
    IN  IF Len(line_split) < 2 THEN {}
        ELSE IF first_word \in keywords \cup extra_words
             THEN {<<MainWordAfter(first_word, last_main_word), Strip(line_split[2])>>}
             ELSE {}

\* The loop over the lines of one file, from line i on
RECURSIVE FileSteps(_, _, _, _)
FileSteps(lines, i, last_main_word, found) ==
    IF i > Len(lines) THEN found
    ELSE FileSteps(lines, i + 1, LastMainWordAfter(lines[i], last_main_word),
                   found \cup StepsOfLine(lines[i], last_main_word))

\* get_steps(files), each file given by its lines
RECURSIVE get_steps_from(_, _, _)
get_steps_from(files, f, found) ==
    IF f > Len(files) THEN found
    ELSE get_steps_from(files, f + 1, FileSteps(files[f], 1, <<>>, found))

get_steps(files) == get_steps_from(files, 1, {})

-----------------------------------------------------------------------------
(* Specification SpecNorm: format_steps applied to a set of step records,   *)
(* and applied again to its own result.                                    *)

\* Longest body over the full alphabet, and over the quote alphabet
MaxBodyLen == 4
MaxQuotedLen == 7

NormAlphabet == {DQ, SQ, LT, GT, "1", DOT, "a", SP}
QuoteAlphabet == {DQ, "a"}

\* Step bodies as get_steps produces them: not empty, stripped
NormBodies ==
    {b \in SeqsUpTo(NormAlphabet, MaxBodyLen) \cup SeqsUpTo(QuoteAlphabet, MaxQuotedLen) :
        b # <<>> /\ Strip(b) = b}

NormInputs == {{}} \cup {{<<kw, b>>} : kw \in {Given, Then}, b \in NormBodies}

NormInit ==
    /\ n_steps \in NormInputs
    /\ n_once = {}
    /\ n_twice = {}
    /\ n_pc = "in"
    /\ MatchIdle /\ ParseIdle /\ SnippetIdle /\ ListenerIdle /\ KeywordIdle

NormFirst ==
    /\ n_pc = "in"
    /\ n_once' = format_steps(n_steps)
    /\ n_pc' = "once"
    /\ UNCHANGED <<n_steps, n_twice, m_vars, p_vars, s_vars, e_vars, k_vars>>

NormSecond ==
    /\ n_pc = "once"
    /\ n_twice' = format_steps(n_once)
    /\ n_pc' = "twice"
    /\ UNCHANGED <<n_steps, n_once, m_vars, p_vars, s_vars, e_vars, k_vars>>

NormNext == NormFirst \/ NormSecond

SpecNorm == NormInit /\ [][NormNext]_vars

\* C1: normalization is idempotent: a second format_steps pass over the
\* result of a first pass returns that result unchanged.
C1_Idempotent == n_pc = "twice" => n_twice = n_once

\* The body with every match of the scan replaced by its class's token at
\* the match's own position, the text outside the matches kept
RECURSIVE SubstituteInPlace(_, _)
SubstituteInPlace(s, i) ==
    IF i > Len(s) THEN <<>>
    ELSE LET e == NormMatchEnd(s, i)
         IN  IF e = 0 THEN <<s[i]>> \o SubstituteInPlace(s, i + 1)
             ELSE NormToken(SubSeq(s, i, e)) \o SubstituteInPlace(s, e + 1)

\* C2: the normalized body is the original body with every match of the
\* left-to-right scan replaced by its token at the match's own position.
C2_InPlace ==
    n_pc # "in" => n_once = {<<st[1], SubstituteInPlace(st[2], 1)>> : st \in n_steps}

-----------------------------------------------------------------------------
(* gherkin_event_listener.py: GherkinEventListener._step_matches_line       *)

\* line_words[1:]
DropFirst(words) == IF words = <<>> THEN <<>> ELSE Tail(words)

\* A loop that assigns match at every index, so that the last index decides
RECURSIVE MatchLoopLastWins(_, _, _, _)
MatchLoopLastWins(step_text, line_text, i, match) ==
    IF i > Len(line_text) THEN match
    ELSE MatchLoopLastWins(step_text, line_text, i + 1, step_text[i] = line_text[i])

\* The loop `for index, char in enumerate(line_text)` from index i on: match
\* is cleared at a differing index and never set again
RECURSIVE MatchLoop(_, _, _, _)
MatchLoop(step_text, line_text, i, match) ==
    IF i > Len(line_text) THEN match
    ELSE MatchLoop(step_text, line_text, i + 1,
                   IF step_text[i] # line_text[i] THEN FALSE ELSE match)

\* A matcher that leaves out the word being typed, as _format_step does
StepMatchesConfirmedWords(step_words, line_words) ==
    LET line_text == JoinSP(SubSeq(line_words, 2, Len(line_words) - 1))
        step_text == JoinSP(step_words)
    IN  IF Len(step_text) >= Len(line_text)
        THEN MatchLoop(step_text, line_text, 1, TRUE)
        ELSE FALSE

_step_matches_line(step_words, line_words) ==
    LET line_text == JoinSP(DropFirst(line_words))
        step_text == JoinSP(step_words)
    IN  IF Len(step_text) >= Len(line_text)
        THEN MatchLoop(step_text, line_text, 1, TRUE)
        ELSE FALSE

-----------------------------------------------------------------------------
(* Specification SpecMatch: _step_matches_line applied to the words of a   *)
(* catalog step and the words of the current line.                         *)

\* Longest step text and longest typed text
MaxMatchLen == 3

MatchAlphabet == {"a", DQ, SP}

MatchTexts ==
    {t \in SeqsUpTo(MatchAlphabet, MaxMatchLen) : t # <<>> /\ Strip(t) = t}

\* The catalog step  I have "input" apples  and lines typed towards it, the
\* line  Given I have "5  among them
ApplesStep ==
    <<"I", SP, "h", "a", "v", "e", SP>> \o TokDQ \o <<SP, "a", "p", "p", "l", "e", "s">>
GivenIHave == <<"G", "i", "v", "e", "n", SP, "I", SP, "h", "a", "v", "e", SP>>
ApplesLine == GivenIHave \o <<DQ, "5">>
ApplesLines ==
    {ApplesLine,
     GivenIHave \o <<DQ>>,
     GivenIHave \o <<DQ, "i", "n">>,
     GivenIHave \o <<DQ, "5", DQ, SP, "a">>,
     GivenIHave \o TokDQ \o <<SP, "a">>}

MatchInputs ==
    {<<st, <<"G", "i", "v", "e", "n", SP>> \o t>> : st \in MatchTexts, t \in MatchTexts}
        \cup {<<ApplesStep, l>> : l \in ApplesLines}

MatchInit ==
    /\ \E in \in MatchInputs :
          /\ m_step_words = SplitWS(in[1])
          /\ m_line_words = SplitWS(in[2])
    /\ m_result = FALSE
    /\ m_pc = "in"
    /\ NormIdle /\ ParseIdle /\ SnippetIdle /\ ListenerIdle /\ KeywordIdle

StepMatchesLine ==
    /\ m_pc = "in"
    /\ m_result' = _step_matches_line(m_step_words, m_line_words)
    /\ m_pc' = "done"
    /\ UNCHANGED <<m_step_words, m_line_words, n_vars, p_vars, s_vars, e_vars, k_vars>>

MatchNext == StepMatchesLine

SpecMatch == MatchInit /\ [][MatchNext]_vars

TypedText == JoinSP(DropFirst(m_line_words))
StepText == JoinSP(m_step_words)

\* Position q of the step text is the opening quote of a "input"
\* placeholder, the typed text agrees with the step text up to and including
\* it, and goes on after it
AgreesUpToQuote(q) ==
    /\ q < Len(TypedText)
    /\ q + Len(TokDQ) - 1 <= Len(StepText)
    /\ SubSeq(StepText, q, q + Len(TokDQ) - 1) = TokDQ
    /\ SubSeq(TypedText, 1, q) = SubSeq(StepText, 1, q)

\* C5 as stated: a line that agrees with the step up to the opening quote of
\* a placeholder and goes on with a partly typed value is accepted; for the
\* step  I have "input" apples  and the line  Given I have "5  the match is
\* true.
C5_PartialValueAccepted ==
    (m_pc = "done" /\ m_step_words = SplitWS(ApplesStep)
        /\ m_line_words = SplitWS(ApplesLine) /\ AgreesUpToQuote(8))
        => m_result = TRUE

\* C5 amended: such a line is accepted only when what was typed after the
\* opening quote is itself a prefix of the step text after that quote; for
\* I have "input" apples  and  Given I have "5  the match is false.
C5_PartialValueRejected ==
    m_pc = "done" =>
        /\ \A q \in 1..Len(TypedText) :
              AgreesUpToQuote(q) =>
                  (m_result <=>
                      /\ Len(TypedText) <= Len(StepText)
                      /\ From(TypedText, q + 1) = SubSeq(StepText, q + 1, Len(TypedText)))
        /\ (m_step_words = SplitWS(ApplesStep) /\ m_line_words = SplitWS(ApplesLine))
              => m_result = FALSE

C5_Witness ==
    /\ m_pc = "done"
    /\ m_step_words = SplitWS(ApplesStep)
    /\ m_line_words = SplitWS(ApplesLine)
    /\ AgreesUpToQuote(8)
    /\ m_result = FALSE

\* C6: _step_matches_line is true exactly when the typed text is no longer
\* than the step text and equals the step text's prefix of the same length.
C6_ExactPrefix ==
    m_pc = "done" =>
        (m_result <=> (/\ Len(TypedText) <= Len(StepText)
                       /\ SubSeq(StepText, 1, Len(TypedText)) = TypedText))

\* A mismatch before the last typed character, which itself matches
C6_Witness ==
    /\ m_pc = "done"
    /\ Len(TypedText) >= 2
    /\ Len(TypedText) <= Len(StepText)
    /\ TypedText[Len(TypedText)] = StepText[Len(TypedText)]
    /\ \E i \in 1..(Len(TypedText) - 1) : TypedText[i] # StepText[i]
    /\ m_result = FALSE

-----------------------------------------------------------------------------
(* Specification SpecParse: get_steps reading files line by line. The     *)
(* lines of a file are drawn as they are read.                            *)

\* Most files in one call, most lines in one file
MaxFiles == 2
MaxFileLines == 3

ParseLines ==
    {<<"G", "i", "v", "e", "n", SP, "a">>,
     <<SP, SP, "W", "H", "E", "N", TAB, "b", SP, "\n">>,
     <<"A", "n", "d", SP, "a", "\n">>,
     <<"b", "u", "t", SP, SP, "b">>,
     <<"T", "h", "e", "n", "\n">>,
     <<"F", "e", "a", "t", "u", "r", "e", ":", SP, "a">>}

ParseInit ==
    /\ p_file = 0
    /\ p_read = <<>>
    /\ p_last = <<>>
    /\ p_steps = {}
    /\ p_open = {}
    /\ p_pc = "next"
    /\ NormIdle /\ MatchIdle /\ SnippetIdle /\ ListenerIdle /\ KeywordIdle

\* An open that leaves last_main_word as the file before left it
GetStepsOpenKeepsWord ==
    /\ p_pc = "next"
    /\ p_file < MaxFiles
    /\ p_file' = p_file + 1
    /\ p_open' = p_open \cup {p_file + 1}
    /\ p_read' = <<>>
    /\ p_pc' = "lines"
    /\ UNCHANGED <<p_last, p_steps, n_vars, m_vars, s_vars, e_vars, k_vars>>

\* `for file in files`: open the next file, last_main_word = ''
GetStepsOpen ==
    /\ p_pc = "next"
    /\ p_file < MaxFiles
    /\ p_file' = p_file + 1
    /\ p_open' = p_open \cup {p_file + 1}
    /\ p_last' = <<>>
    /\ p_read' = <<>>
    /\ p_pc' = "lines"
    /\ UNCHANGED <<p_steps, n_vars, m_vars, s_vars, e_vars, k_vars>>

\* One iteration of `for line in file.readlines()`
GetStepsLine ==
    /\ p_pc = "lines"
    /\ Len(p_read) < MaxFileLines
    /\ \E line \in ParseLines :
          /\ p_read' = Append(p_read, line)
          /\ p_last' = LastMainWordAfter(line, p_last)
          /\ p_steps' = p_steps \cup StepsOfLine(line, p_last)
    /\ UNCHANGED <<p_file, p_open, p_pc, n_vars, m_vars, s_vars, e_vars, k_vars>>

\* The file has no more lines: file.close()
GetStepsClose ==
    /\ p_pc = "lines"
    /\ p_open' = p_open \ {p_file}
    /\ p_pc' = "next"
    /\ UNCHANGED <<p_file, p_read, p_last, p_steps, n_vars, m_vars, s_vars, e_vars, k_vars>>

\* There are no more files: return steps
GetStepsReturn ==
    /\ p_pc = "next"
    /\ p_pc' = "returned"
    /\ UNCHANGED <<p_file, p_read, p_last, p_steps, p_open, n_vars, m_vars, s_vars, e_vars, k_vars>>

\* open(file) raises (the file is missing or may not be read): the exception
\* leaves get_steps, which has no try or with statement
GetStepsOpenRaises ==
    /\ p_pc = "next"
    /\ p_file < MaxFiles
    /\ p_file' = p_file + 1
    /\ p_pc' = "raised"
    /\ UNCHANGED <<p_read, p_last, p_steps, p_open, n_vars, m_vars, s_vars, e_vars, k_vars>>

\* file.readlines() raises (a read or decoding error) before the first
\* iteration: the exception leaves get_steps, past file.close()
GetStepsReadRaises ==
    /\ p_pc = "lines"
    /\ p_read = <<>>
    /\ p_pc' = "raised"
    /\ UNCHANGED <<p_file, p_read, p_last, p_steps, p_open, n_vars, m_vars, s_vars, e_vars, k_vars>>

ParseNext ==
    \/ GetStepsOpen
    \/ GetStepsLine
    \/ GetStepsClose
    \/ GetStepsReturn
    \/ GetStepsOpenRaises
    \/ GetStepsReadRaises

SpecParse == ParseInit /\ [][ParseNext]_vars

\* The first whitespace-delimited token of a line, lower-cased, and what
\* follows it, trimmed
FirstToken(line) ==
    IF SplitWS(line) = <<>> THEN <<>> ELSE LowerStr(SplitWS(line)[1])
Remainder(line) ==
    IF SplitWS(line) = <<>> THEN <<>>
    ELSE Strip(From(LStrip(line), Len(SplitWS(line)[1]) + 1))

\* The first token of the last of the first i lines that has a remainder
\* and a primary keyword as first token; empty when there is none
LastPrimaryKeyword(lines, i) ==
    LET prim == {j \in 1..i : Remainder(lines[j]) # <<>> /\ FirstToken(lines[j]) \in keywords}
    IN  IF prim = {} THEN <<>> ELSE FirstToken(lines[Max(prim)])

\* What line i of a file must add to the result
RecordsOfLine(lines, i) ==
    IF Remainder(lines[i]) = <<>> THEN {}
    ELSE IF FirstToken(lines[i]) \in keywords
         THEN {<<FirstToken(lines[i]), Remainder(lines[i])>>}
    ELSE IF FirstToken(lines[i]) \in extra_words
         THEN {<<LastPrimaryKeyword(lines, i - 1), Remainder(lines[i])>>}
    ELSE {}

\* C8: every line read adds exactly this to the result: (lower-cased first
\* token, trimmed remainder) for a given/when/then line with a remainder,
\* which becomes the file's last primary keyword; (the file's last primary
\* keyword, trimmed remainder) for an and/but line with a remainder, which
\* leaves the last primary keyword alone; nothing for any other line.
C8_RecordPerLine ==
    [][GetStepsLine =>
        /\ p_steps' = p_steps \cup RecordsOfLine(p_read', Len(p_read'))
        /\ p_last' = LastPrimaryKeyword(p_read', Len(p_read'))]_vars

\* An and/but line after a given/when/then line in another letter case and
\* a keyword line without remainder has taken the earlier keyword
C8_Witness ==
    /\ Len(p_read) = 3
    /\ FirstToken(p_read[1]) = When
    /\ SplitWS(p_read[1])[1] # When
    /\ FirstToken(p_read[2]) = Then
    /\ FirstToken(p_read[3]) = But
    /\ <<When, <<"b">>>> \in p_steps
    /\ p_last = When

\* C9: every record of get_steps has a keyword in {given, when, then}.
C9_PrimaryKeywordOnly == \A st \in p_steps : st[1] \in keywords

\* C17: when get_steps has returned or has let an exception out, no file
\* it opened is still open.
C17_ClosedOnEveryExit == p_pc \in {"returned", "raised"} => p_open = {}

\* C18: last_main_word is empty when a file is opened, and the keyword of
\* every record added for a line of a file is the last primary keyword of
\* that file's lines up to that line, whatever the files before it held.
C18_KeywordPerFile ==
    [][/\ GetStepsOpen => p_last' = <<>>
       /\ GetStepsLine =>
              \A st \in p_steps' \ p_steps :
                  st[1] = LastPrimaryKeyword(p_read', Len(p_read'))]_vars

\* In the second file an and/but line has been read and no given/when/then
\* line yet, after a first file that had one: the records hold a primary
\* keyword and the empty keyword, and last_main_word is empty
C18_Witness ==
    /\ p_file = 2
    /\ p_pc = "lines"
    /\ Len(p_read) >= 1
    /\ FirstToken(p_read[Len(p_read)]) \in extra_words
    /\ LastPrimaryKeyword(p_read, Len(p_read)) = <<>>
    /\ \E st \in p_steps : st[1] \in keywords
    /\ \E st \in p_steps : st[1] = <<>>
    /\ p_last = <<>>

-----------------------------------------------------------------------------
(* gherkin_event_listener.py: GherkinEventListener._format_step             *)

DigitChars == <<"0", "1", "2", "3", "4", "5", "6", "7", "8", "9">>

\* str(index) for an index >= 0
RECURSIVE IndexStr(_)
IndexStr(n) ==
    IF n < 10 THEN <<DigitChars[n + 1]>>
    ELSE IndexStr(n \div 10) \o <<DigitChars[(n % 10) + 1]>>

\* line_words[1:-1]
ConfirmedWords(line_words) == SubSeq(line_words, 2, Len(line_words) - 1)

\* `for i in range(len(line_text)): step = step.replace(line_text[i], '', 1)`
\* from character i on
RECURSIVE RemoveTyped(_, _, _)
RemoveTyped(step, line_text, i) ==
    IF i > Len(line_text) THEN step
    ELSE RemoveTyped(Replace1(step, <<line_text[i]>>, <<>>), line_text, i + 1)

\* The last position of the match of the _format_step regex that starts at
\* position i, 0 when it does not match there
SnipMatchEnd(s, i) ==
    IF s[i] = DQ THEN DelimitedEnd(s, i, DQ)
    ELSE IF s[i] = SQ THEN DelimitedEnd(s, i, SQ)
    ELSE IF s[i] = LT THEN DelimitedEnd(s, i, GT)
    ELSE IF i + Len(TokNumber) - 1 <= Len(s)
            /\ SubSeq(s, i, i + Len(TokNumber) - 1) = TokNumber
         THEN i + Len(TokNumber) - 1
    ELSE 0

\* re.findall(regex, step) from position i on
RECURSIVE SnipFindAll(_, _)
SnipFindAll(s, i) ==
    IF i > Len(s) THEN <<>>
    ELSE LET e == SnipMatchEnd(s, i)
         IN  IF e = 0 THEN SnipFindAll(s, i + 1)
             ELSE <<SubSeq(s, i, e)>> \o SnipFindAll(s, e + 1)

\* The reconstruction template for a matched word
SnipTemplate(word, index) ==
    LET field == <<"$", "{">> \o IndexStr(index) \o <<":", "i", "n", "p", "u", "t", "}">>
    IN  IF word[1] = DQ THEN <<DQ>> \o field \o <<DQ>>
        ELSE IF word[1] = SQ THEN <<SQ>> \o field \o <<SQ>>
        ELSE IF word[1] = LT THEN <<LT>> \o field \o <<GT>>
        ELSE <<"$", "{">> \o IndexStr(index) \o <<":">> \o TokNumber \o <<"}">>

\* The loop `for word in replace_values` from word k on
RECURSIVE SnipReplaceAll(_, _, _, _)
SnipReplaceAll(step, words, k, index) ==
    IF k > Len(words) THEN step
    ELSE IF words[k][1] \in {DQ, SQ, LT, "["}
         THEN SnipReplaceAll(Replace1(step, words[k], SnipTemplate(words[k], index)),
                             words, k + 1, index + 1)
         ELSE SnipReplaceAll(step, words, k + 1, index)

_format_step(step, line_words) ==
    LET line_text == JoinSP(ConfirmedWords(line_words))
        rest == RemoveTyped(step, line_text, 1)
    IN  Strip(SnipReplaceAll(rest, SnipFindAll(rest, 1), 1, 1))

-----------------------------------------------------------------------------
(* Specification SpecSnippet: _format_step applied to a catalog step, with *)
(* no line words or with the words of a line typed towards that step.      *)

\* Most pieces (placeholder tokens and plain words) in a step
MaxPieces == 3

SnipPieces == {TokDQ, TokSQ, TokAngle, TokNumber, <<"a">>}

SnipSteps == {JoinSP(ps) : ps \in SeqsUpTo(SnipPieces, MaxPieces) \ {<<>>}}

GivenSP == <<"G", "i", "v", "e", "n", SP>>

\* A step with no line words, or with the words of `Given ` and a prefix of
\* the step that does not end in whitespace
SnipInputs ==
    {<<st, <<>>>> : st \in SnipSteps}
        \cup UNION {{<<st, SplitWS(GivenSP \o SubSeq(st, 1, k))>> :
                        k \in {j \in 1..Len(st) : st[j] \notin Whitespace}} :
                    st \in SnipSteps}

SnippetInit ==
    /\ \E in \in SnipInputs :
          /\ s_step = in[1]
          /\ s_line_words = in[2]
    /\ s_result = <<>>
    /\ s_pc = "in"
    /\ NormIdle /\ MatchIdle /\ ParseIdle /\ ListenerIdle /\ KeywordIdle

FormatStep ==
    /\ s_pc = "in"
    /\ s_result' = _format_step(s_step, s_line_words)
    /\ s_pc' = "done"
    /\ UNCHANGED <<s_step, s_line_words, n_vars, m_vars, p_vars, e_vars, k_vars>>

SnippetNext == FormatStep

SpecSnippet == SnippetInit /\ [][SnippetNext]_vars

\* The text with every placeholder token replaced, where it stands, by its
\* template, the indices counting up from index
RECURSIVE TemplatesInPlace(_, _, _)
TemplatesInPlace(s, i, index) ==
    IF i > Len(s) THEN <<>>
    ELSE LET e == SnipMatchEnd(s, i)
         IN  IF e = 0 THEN <<s[i]>> \o TemplatesInPlace(s, i + 1, index)
             ELSE SnipTemplate(SubSeq(s, i, e), index)
                      \o TemplatesInPlace(s, e + 1, index + 1)

\* C3: _format_step rewrites every placeholder token of the remaining step
\* text into its template exactly once, the indices 1..k in left-to-right
\* order, no template nested inside another.
C3_TemplatesInOrder ==
    s_pc = "done" =>
        s_result = Strip(TemplatesInPlace(
                       RemoveTyped(s_step, JoinSP(ConfirmedWords(s_line_words)), 1), 1, 1))

-----------------------------------------------------------------------------
(* gherkin_parser.py: GherkinParser.run                                     *)

\* run(directories), given the feature files get_feature_files finds there
run(files) == format_steps(get_steps(files))

-----------------------------------------------------------------------------
(* gherkin_event_listener.py: GherkinEventListener                          *)

\* The characters of the model in code point order
CharOrder ==
    <<TAB, "\n", SP, DQ, "$", SQ, DOT>> \o DigitChars \o <<":", LT, GT>> \o Upper
        \o <<"[", "]">> \o Lower \o <<"{", "}">>
CharCode(c) == CHOOSE i \in 1..Len(CharOrder) : CharOrder[i] = c

\* a < b for two str
RECURSIVE StrLess(_, _)
StrLess(a, b) ==
    IF b = <<>> THEN FALSE
    ELSE IF a = <<>> THEN TRUE
    ELSE IF a[1] = b[1] THEN StrLess(Tail(a), Tail(b))
    ELSE CharCode(a[1]) < CharCode(b[1])

\* x < y for two suggestions, tuples (label, snippet)
SuggestionLess(x, y) ==
    IF x[1] = y[1] THEN StrLess(x[2], y[2]) ELSE StrLess(x[1], y[1])

\* sorted(_completions)
Sorted(S) ==
    CHOOSE q \in [1..Cardinality(S) -> S] :
        \A i, j \in 1..Cardinality(S) : i < j => SuggestionLess(q[i], q[j])

Range(f) == {f[x] : x \in DOMAIN f}

\* The orders in which list.extend can take the elements of a set
Orders(S) ==
    {q \in [1..Cardinality(S) -> S] :
        \A i, j \in 1..Cardinality(S) : i # j => q[i] # q[j]}

\* completions[step] = suggestion
Put(dict, key, value) ==
    [k \in DOMAIN dict \cup {key} |-> IF k = key THEN value ELSE dict[k]]

\* (step + '\t' + step_type, step_format)
Suggestion(step_type, step, line_words) ==
    <<step \o <<TAB>> \o step_type, _format_step(step, line_words)>>

\* view.substr(sublime.Region(pos - 1, pos)) with the cursor after column col
\* of line row
NextChar(lines, row, col) ==
    IF col > 0 THEN lines[row][col] ELSE IF row > 1 THEN "\n" ELSE ""

\* region_text.split(' ', 1)[0]: the text before the first space
BeforeFirstSpace(text) ==
    LET sp == {i \in 1..Len(text) : text[i] = SP}
    IN  IF sp = {} THEN text ELSE SubSeq(text, 1, Min(sp) - 1)

\* `for region in reversed(all_lines[0:current_index])`, from line i down
RECURSIVE KeywordAbove(_, _)
KeywordAbove(lines, i) ==
    IF i = 0 THEN <<>>
    ELSE LET first == LowerStr(BeforeFirstSpace(LStrip(lines[i])))
         IN  IF first \in keywords THEN first ELSE KeywordAbove(lines, i - 1)

\* last_keyword as _fill_completions finds it for the line at row
FindKeyword(lines, row) ==
    LET current_line_words == SplitWS(Strip(lines[row]))
    IN  IF current_line_words # <<>> /\ LowerStr(current_line_words[1]) \in keywords
        THEN LowerStr(current_line_words[1])
        ELSE KeywordAbove(lines, row - 1)

\* Whether the loop body of _fill_completions adds the step
Offers(step_type, step, last_keyword, line_words) ==
    /\ step_type = last_keyword
    /\ \/ Len(line_words) = 1
       \/ Len(line_words) > 1 /\ _step_matches_line(SplitWS(step), line_words)

-----------------------------------------------------------------------------
(* Specification Spec: the listener. on_modified and on_query_completions   *)
(* run on the host's main thread, on_post_save_async on its async thread.   *)

LineGiven == <<"G", "i", "v", "e", "n">>
LineGivenSP == <<"G", "i", "v", "e", "n", SP>>
LineGivenA == <<"G", "i", "v", "e", "n", SP, "a">>
LineAndA == <<"a", "n", "d", SP, "a">>
LineThenAB == <<SP, "T", "h", "e", "n", SP, "a", SP, "b">>

\* The views edited: their lines
Docs ==
    {<<LineGiven>>, <<LineGivenSP>>, <<LineGivenA>>, <<LineAndA>>, <<LineThenAB, LineAndA>>,
     <<LineGivenA, LineThenAB>>}

\* The feature files of the target directories before and after a save
DiskA ==
    << <<<<"G", "i", "v", "e", "n", SP, "a", SP, "1", "\n">>,
         <<"A", "n", "d", SP, "a", SP, "2", "\n">>,
         <<"W", "h", "e", "n", SP, "a", SP, "b", "\n">>>> >>
DiskB ==
    << <<<<"G", "i", "v", "e", "n", SP, "a", SP, "b", "\n">>>>,
       <<<<"T", "h", "e", "n", SP, "a", SP, "b", "\n">>>> >>
DiskSet == {DiskA, DiskB}

NoLocals ==
    l_view = <<>> /\ l_next = "" /\ l_words = <<>> /\ l_keyword = <<>> /\ l_idx = 0

Init ==
    /\ steps = <<>>
    /\ completions = <<>>
    /\ first_modify = TRUE
    /\ has_level = FALSE
    /\ disk \in DiskSet
    /\ host_error = FALSE
    /\ returned = <<>>
    /\ main_pc = "idle"
    /\ NoLocals
    /\ a_pc = "idle"
    /\ NormIdle /\ MatchIdle /\ ParseIdle /\ SnippetIdle /\ KeywordIdle

o_vars == <<n_vars, m_vars, p_vars, s_vars, k_vars>>

\* on_modified, up to `if self.first_modify`. feature is false for a view
\* with no selection or no .feature file name, for which it returns at once.
OnModified ==
    /\ main_pc = "idle"
    /\ \E feature \in BOOLEAN, lines \in Docs :
         \E row \in 1..Len(lines) :
           \E col \in 0..Len(lines[row]) :
             IF ~feature
             THEN UNCHANGED <<main_pc, l_view, l_next, returned>>
             ELSE /\ l_view' = <<lines, row>>
                  /\ l_next' = NextChar(lines, row, col)
                  /\ main_pc' = IF first_modify THEN "update" ELSE "edit"
                  /\ returned' = <<>>
    /\ UNCHANGED <<steps, completions, first_modify, has_level, disk, host_error,
                   l_words, l_keyword, l_idx, a_pc, o_vars>>

\* on_modified: the logging set-up, and _update_steps up to steps.clear()
UpdateSteps ==
    /\ main_pc = "update"
    /\ has_level' = TRUE
    /\ \E has_directories \in BOOLEAN :
         IF ~has_directories
         THEN /\ host_error' = TRUE
              /\ first_modify' = FALSE
              /\ main_pc' = "edit"
              /\ UNCHANGED steps
         ELSE /\ steps' = <<>>
              /\ main_pc' = "extend"
              /\ UNCHANGED <<host_error, first_modify>>
    /\ UNCHANGED <<completions, disk, returned, l_view, l_next, l_words, l_keyword,
                   l_idx, a_pc, o_vars>>

\* _update_steps: parser.run and steps.extend; then first_modify = False
ExtendSteps ==
    /\ main_pc = "extend"
    /\ \E new_steps \in Orders(run(disk)) : steps' = steps \o new_steps
    /\ first_modify' = FALSE
    /\ main_pc' = "edit"
    /\ UNCHANGED <<completions, has_level, disk, host_error, returned, l_view, l_next,
                   l_words, l_keyword, l_idx, a_pc, o_vars>>

\* on_modified from the next_char test on, and _fill_completions up to its
\* loop over steps
FillCompletions ==
    /\ main_pc = "edit"
    /\ LET current_line_text == Strip(l_view[1][l_view[2]])
           last_keyword == FindKeyword(l_view[1], l_view[2])
       IN  IF \/ l_next \in {SP, "\n"}
              \/ \A i \in 1..Len(current_line_text) : current_line_text[i] # SP
              \/ last_keyword = <<>>
           THEN main_pc' = "ret" /\ UNCHANGED <<l_words, l_keyword, l_idx>>
           ELSE /\ l_words' = SplitWS(current_line_text)
                /\ l_keyword' = last_keyword
                /\ l_idx' = 1
                /\ main_pc' = "fill"
    /\ UNCHANGED <<steps, completions, first_modify, has_level, disk, host_error,
                   returned, l_view, l_next, a_pc, o_vars>>

\* One iteration of `for step_type, step in steps`, or its end
FillStep ==
    /\ main_pc = "fill"
    /\ IF l_idx > Len(steps)
       THEN main_pc' = "ret" /\ UNCHANGED <<completions, l_idx>>
       ELSE /\ completions' =
                  IF Offers(steps[l_idx][1], steps[l_idx][2], l_keyword, l_words)
                  THEN Put(completions, steps[l_idx][2],
                           Suggestion(steps[l_idx][1], steps[l_idx][2],
                                      IF Len(l_words) = 1 THEN <<>> ELSE l_words))
                  ELSE completions
            /\ l_idx' = l_idx + 1
            /\ UNCHANGED main_pc
    /\ UNCHANGED <<steps, first_modify, has_level, disk, host_error, returned,
                   l_view, l_next, l_words, l_keyword, a_pc, o_vars>>

\* on_modified returns
ModifiedReturn ==
    /\ main_pc = "ret"
    /\ main_pc' = "idle"
    /\ l_view' = <<>> /\ l_next' = "" /\ l_words' = <<>> /\ l_keyword' = <<>> /\ l_idx' = 0
    /\ UNCHANGED <<steps, completions, first_modify, has_level, disk, host_error,
                   returned, a_pc, o_vars>>

\* A query that returns the entries without completions.clear()
OnQueryCompletionsKeeps ==
    /\ main_pc = "idle"
    /\ returned' = Sorted(Range(completions))
    /\ UNCHANGED <<steps, completions, first_modify, has_level, disk, host_error, main_pc,
                   l_view, l_next, l_words, l_keyword, l_idx, a_pc, o_vars>>

\* on_query_completions
OnQueryCompletions ==
    /\ main_pc = "idle"
    /\ returned' = Sorted(Range(completions))
    /\ completions' = <<>>
    /\ UNCHANGED <<steps, first_modify, has_level, disk, host_error, main_pc,
                   l_view, l_next, l_words, l_keyword, l_idx, a_pc, o_vars>>

\* A file is saved and on_post_save_async runs _update_steps up to
\* steps.clear()
OnPostSaveAsync ==
    /\ a_pc = "idle"
    /\ \E feature \in BOOLEAN, has_directories \in BOOLEAN, files \in DiskSet :
         IF ~feature
         THEN UNCHANGED <<steps, disk, host_error, a_pc>>
         ELSE /\ disk' = files
              /\ IF ~has_directories
                 THEN host_error' = TRUE /\ UNCHANGED <<steps, a_pc>>
                 ELSE /\ steps' = <<>>
                      /\ a_pc' = "extend"
                      /\ UNCHANGED host_error
    /\ UNCHANGED <<completions, first_modify, has_level, returned, main_pc,
                   l_view, l_next, l_words, l_keyword, l_idx, o_vars>>

\* _update_steps on the async thread after steps.clear(): the parser is
\* built from self._logging_level, which on_modified assigns; then
\* parser.run and steps.extend
AsyncExtendSteps ==
    /\ a_pc = "extend"
    /\ IF ~has_level
       THEN UNCHANGED steps
       ELSE \E new_steps \in Orders(run(disk)) : steps' = steps \o new_steps
    /\ a_pc' = "idle"
    /\ UNCHANGED <<completions, first_modify, has_level, disk, host_error, returned,
                   main_pc, l_view, l_next, l_words, l_keyword, l_idx, o_vars>>

Next ==
    \/ OnModified
    \/ UpdateSteps
    \/ ExtendSteps
    \/ FillCompletions
    \/ FillStep
    \/ ModifiedReturn
    \/ OnQueryCompletions
    \/ OnPostSaveAsync
    \/ AsyncExtendSteps

Spec == Init /\ [][Next]_vars

TypeOK ==
    /\ main_pc \in {"idle", "update", "extend", "edit", "fill", "ret"}
    /\ a_pc \in {"idle", "extend"}
    /\ first_modify \in BOOLEAN /\ has_level \in BOOLEAN /\ host_error \in BOOLEAN
    /\ disk \in DiskSet
    /\ main_pc = "idle" => NoLocals

\* C4: when the line of the edit is one word, a primary keyword, the
\* completions left by that edit hold every catalog entry of that keyword.
C4_KeywordOnlyOffersAll ==
    main_pc = "ret" =>
        LET current_line_words == SplitWS(Strip(l_view[1][l_view[2]]))
        IN  (Len(current_line_words) = 1 /\ LowerStr(current_line_words[1]) \in keywords)
                => \A i \in 1..Len(steps) :
                      steps[i][1] = LowerStr(current_line_words[1])
                          => /\ steps[i][2] \in DOMAIN completions
                             /\ completions[steps[i][2]]
                                    = Suggestion(steps[i][1], steps[i][2], <<>>)

\* Whether list c is a complete catalog: the records of one run over some
\* state of the feature files, each once
CompleteCatalog(c) == \E files \in DiskSet : c \in Orders(run(files))

\* C10: a _fill_completions that runs while a rebuild on the async thread
\* is in progress reads a complete catalog, never an emptied or partly
\* filled one. (Set aside: the catalog that is still the initial empty list
\* because a rebuild found no directories.)
C10_NoIntermediateCatalog ==
    (main_pc = "fill" /\ a_pc = "extend" /\ ~host_error) => CompleteCatalog(steps)

-----------------------------------------------------------------------------
(* Specification SpecKeyword: the keyword lookup of _fill_completions       *)
(* applied to a view and the line of the cursor.                           *)

\* Most lines in a view
MaxViewLines == 3

KeywordLines ==
    {<<"G", "i", "v", "e", "n", SP, "a">>,
     <<"W", "H", "E", "N", TAB, "a", SP, "b">>,
     <<"a", "n", "d", SP, "a">>,
     <<SP, SP, "t", "h", "e", "n", SP, "a">>,
     <<"T", "h", "e", "n">>,
     <<"x", SP, "a">>}

\* The lookup is reached for a line that has a space after stripping
KeywordViews ==
    {v \in (SeqsUpTo(KeywordLines, MaxViewLines) \ {<<>>}) \X (1..MaxViewLines) :
        /\ v[2] <= Len(v[1])
        /\ \E i \in 1..Len(Strip(v[1][v[2]])) : Strip(v[1][v[2]])[i] = SP}

KeywordInit ==
    /\ k_view \in KeywordViews
    /\ k_keyword = <<>>
    /\ k_pc = "in"
    /\ NormIdle /\ MatchIdle /\ ParseIdle /\ SnippetIdle /\ ListenerIdle

LookUpKeyword ==
    /\ k_pc = "in"
    /\ k_keyword' = FindKeyword(k_view[1], k_view[2])
    /\ k_pc' = "done"
    /\ UNCHANGED <<k_view, n_vars, m_vars, p_vars, s_vars, e_vars>>

KeywordNext == LookUpKeyword

SpecKeyword == KeywordInit /\ [][KeywordNext]_vars

\* The keyword of the nearest of the first i lines whose first
\* whitespace-delimited token is a primary keyword; empty when there is none
NearestPrimary(lines, i) ==
    LET prim == {j \in 1..i : FirstToken(lines[j]) \in keywords}
    IN  IF prim = {} THEN <<>> ELSE FirstToken(lines[Max(prim)])

-----------------------------------------------------------------------------
(* Specification SpecSerial: the listener when the host runs one handler   *)
(* at a time, each to its end: every on_modified, on_query_completions and *)
(* on_post_save_async call is one step. l_view and l_next keep the view    *)
(* and next_char of the last on_modified call on a feature file.           *)

\* parser.run over each state of the feature files
RunOver == [files \in DiskSet |-> run(files)]

\* The loop `for step_type, step in steps` of _fill_completions, from
\* index i of the catalog on
RECURSIVE FillFrom(_, _, _, _, _)
FillFrom(dict, catalog, i, last_keyword, line_words) ==
    IF i > Len(catalog) THEN dict
    ELSE FillFrom(IF Offers(catalog[i][1], catalog[i][2], last_keyword, line_words)
                  THEN Put(dict, catalog[i][2],
                           Suggestion(catalog[i][1], catalog[i][2],
                                      IF Len(line_words) = 1 THEN <<>> ELSE line_words))
                  ELSE dict,
                  catalog, i + 1, last_keyword, line_words)

\* The dict `completions` after on_modified from the next_char test on
Filled(dict, catalog, lines, row, next_char) ==
    LET current_line_text == Strip(lines[row])
        last_keyword == FindKeyword(lines, row)
    IN  IF \/ next_char \in {SP, "\n"}
           \/ \A i \in 1..Len(current_line_text) : current_line_text[i] # SP
           \/ last_keyword = <<>>
        THEN dict
        ELSE FillFrom(dict, catalog, 1, last_keyword, SplitWS(current_line_text))

\* on_modified(view). feature: the view has a selection and a .feature file
\* name; has_directories: target_directories is not empty; readable:
\* parser.run raises nothing; the cursor is after column col of line row.
OnModifiedCall(feature, has_directories, readable, lines, row, col) ==
    /\ main_pc = "idle"
    /\ a_pc = "idle"
    /\ IF ~feature
       THEN UNCHANGED <<steps, completions, first_modify, has_level, host_error,
                        returned, l_view, l_next>>
       ELSE /\ l_view' = <<lines, row>>
            /\ l_next' = NextChar(lines, row, col)
            /\ returned' = <<>>
            /\ IF ~first_modify
               THEN /\ completions' = Filled(completions, steps, lines, row,
                                             NextChar(lines, row, col))
                    /\ UNCHANGED <<steps, first_modify, has_level, host_error>>
               ELSE /\ has_level' = TRUE
                    /\ IF ~has_directories
                       THEN /\ host_error' = TRUE
                            /\ first_modify' = FALSE
                            /\ completions' = Filled(completions, steps, lines, row,
                                                     NextChar(lines, row, col))
                            /\ UNCHANGED steps
                       ELSE IF ~readable
                       THEN /\ steps' = <<>>
                            /\ UNCHANGED <<completions, first_modify, host_error>>
                       ELSE /\ \E new_steps \in Orders(RunOver[disk]) :
                                  /\ steps' = <<>> \o new_steps
                                  /\ completions' = Filled(completions, new_steps, lines,
                                                           row, NextChar(lines, row, col))
                            /\ first_modify' = FALSE
                            /\ UNCHANGED host_error
    /\ UNCHANGED <<disk, main_pc, l_words, l_keyword, l_idx, a_pc, o_vars>>

\* The cursor columns of a line: its start, after its first space, its end
CursorCols(lines, row) ==
    {col \in 0..Len(lines[row]) :
        \/ col \in {0, Len(lines[row])}
        \/ /\ lines[row][col] = SP
           /\ \A c \in 1..(col - 1) : lines[row][c] # SP}

\* on_modified reads target_directories and the files only on the
\* listener's first call for a feature file
OnModifiedSerial ==
    \/ \E lines \in Docs :
           \E row \in 1..Len(lines) :
               \E col \in CursorCols(lines, row) :
                   \E has_directories \in (IF first_modify THEN BOOLEAN ELSE {TRUE}) :
                       \E readable \in (IF first_modify /\ has_directories
                                         THEN BOOLEAN ELSE {TRUE}) :
                           OnModifiedCall(TRUE, has_directories, readable, lines, row, col)
    \/ OnModifiedCall(FALSE, TRUE, TRUE, <<LineGiven>>, 1, 0)

\* A save that extends the list without steps.clear()
OnPostSaveAsyncKeepsOld(feature, has_directories, readable, files) ==
    /\ main_pc = "idle"
    /\ a_pc = "idle"
    /\ IF ~feature
       THEN UNCHANGED <<steps, disk, host_error>>
       ELSE /\ disk' = files
            /\ IF ~has_directories
               THEN host_error' = TRUE /\ UNCHANGED steps
               ELSE IF ~has_level \/ ~readable
               THEN UNCHANGED <<steps, host_error>>
               ELSE /\ \E new_steps \in Orders(RunOver[files]) : steps' = steps \o new_steps
                    /\ UNCHANGED host_error
    /\ UNCHANGED <<completions, first_modify, has_level, returned, main_pc,
                   l_view, l_next, l_words, l_keyword, l_idx, a_pc, o_vars>>

\* A save that does steps.clear() before the test of target_directories
OnPostSaveAsyncClearsFirst(feature, has_directories, readable, files) ==
    /\ main_pc = "idle"
    /\ a_pc = "idle"
    /\ IF ~feature
       THEN UNCHANGED <<steps, disk, host_error>>
       ELSE /\ disk' = files
            /\ IF ~has_directories
               THEN host_error' = TRUE /\ steps' = <<>>
               ELSE IF ~has_level \/ ~readable
               THEN steps' = <<>> /\ UNCHANGED host_error
               ELSE /\ \E new_steps \in Orders(RunOver[files]) : steps' = <<>> \o new_steps
                    /\ UNCHANGED host_error
    /\ UNCHANGED <<completions, first_modify, has_level, returned, main_pc,
                   l_view, l_next, l_words, l_keyword, l_idx, a_pc, o_vars>>

\* on_post_save_async(view) after a save that leaves the feature files as
\* `files`. _update_steps: the error message when there are no directories;
\* else steps.clear(), then gp.GherkinParser(self._logging_level), which
\* raises when on_modified has not assigned it, then parser.run, which raises
\* when a file cannot be read, then steps.extend.
OnPostSaveAsyncCall(feature, has_directories, readable, files) ==
    /\ main_pc = "idle"
    /\ a_pc = "idle"
    /\ IF ~feature
       THEN UNCHANGED <<steps, disk, host_error>>
       ELSE /\ disk' = files
            /\ IF ~has_directories
               THEN host_error' = TRUE /\ UNCHANGED steps
               ELSE IF ~has_level \/ ~readable
               THEN steps' = <<>> /\ UNCHANGED host_error
               ELSE /\ \E new_steps \in Orders(RunOver[files]) : steps' = <<>> \o new_steps
                    /\ UNCHANGED host_error
    /\ UNCHANGED <<completions, first_modify, has_level, returned, main_pc,
                   l_view, l_next, l_words, l_keyword, l_idx, a_pc, o_vars>>

OnPostSaveAsyncSerial ==
    \E feature \in BOOLEAN, files \in DiskSet :
        \E has_directories \in (IF feature THEN BOOLEAN ELSE {TRUE}) :
            \E readable \in (IF feature /\ has_directories THEN BOOLEAN ELSE {TRUE}) :
                OnPostSaveAsyncCall(feature, has_directories, readable, files)

SerialNext == OnModifiedSerial \/ OnQueryCompletions \/ OnPostSaveAsyncSerial

SpecSerial == Init /\ [][SerialNext]_vars

\* Whether list holds exactly the records of run over files, each once
IsCatalogOf(list, files) ==
    /\ Range(list) = RunOver[files]
    /\ \A i, j \in 1..Len(list) : i # j => list[i] # list[j]

\* C11: every rebuild that succeeds (directories configured, files read,
\* logging level assigned), after any sequence of handler calls run one at a
\* time, leaves in `steps` exactly the records of run over the files as they
\* are now, each once, and nothing of an earlier rebuild.
C11_LatestRunOnly ==
    [][/\ \A files \in DiskSet :
              (has_level /\ OnPostSaveAsyncCall(TRUE, TRUE, TRUE, files))
                  => IsCatalogOf(steps', files)
       /\ (first_modify /\ \E lines \in Docs : \E row \in 1..Len(lines) :
                              \E col \in CursorCols(lines, row) :
                                  OnModifiedCall(TRUE, TRUE, TRUE, lines, row, col))
              => IsCatalogOf(steps', disk)]_vars

\* The catalog of a file set whose raw steps collapse (three step lines, two
\* records) is in place after the catalog of another file set was
C11_Witness ==
    /\ disk = DiskA
    /\ IsCatalogOf(steps, DiskA)
    /\ Len(steps) < Cardinality(get_steps(DiskA))
    /\ \E key \in DOMAIN completions :
          \E st \in run(DiskB) : st[2] = key /\ st \notin run(DiskA)

\* C12: a rebuild requested (by a save, or by the listener's first
\* on_modified) when target_directories is empty reports the error to the
\* host and leaves `steps` as it was.
C12_EmptyDirectories ==
    [][/\ \A files \in DiskSet, readable \in BOOLEAN :
              OnPostSaveAsyncCall(TRUE, FALSE, readable, files)
                  => host_error' /\ steps' = steps
       /\ (first_modify /\ \E lines \in Docs : \E row \in 1..Len(lines) :
                              \E col \in CursorCols(lines, row) :
                                  OnModifiedCall(TRUE, FALSE, TRUE, lines, row, col))
              => host_error' /\ steps' = steps]_vars

\* The error has been reported and the catalog built before it is still in
\* place, though the save changed the files
C12_Witness ==
    /\ host_error
    /\ steps # <<>>
    /\ \E files \in DiskSet : files # disk /\ IsCatalogOf(steps, files)

\* C13: a rebuild in which parser.run raises (a file that is missing or
\* cannot be read) leaves `steps` as it was before the rebuild started.
C13_FailedRebuildKeepsCatalog ==
    [][/\ \A files \in DiskSet :
              OnPostSaveAsyncCall(TRUE, TRUE, FALSE, files) => steps' = steps
       /\ (first_modify /\ \E lines \in Docs : \E row \in 1..Len(lines) :
                              \E col \in CursorCols(lines, row) :
                                  OnModifiedCall(TRUE, TRUE, FALSE, lines, row, col))
              => steps' = steps]_vars

\* C14: the save of a feature file, with directories configured and files
\* that can be read, leaves in `steps` the records of run over the files as
\* saved, also when no on_modified has run on the listener before.
C14_SaveRebuilds ==
    [][\A files \in DiskSet :
           OnPostSaveAsyncCall(TRUE, TRUE, TRUE, files) => IsCatalogOf(steps', files)]_vars

\* The keyword of an edit: the lower-cased first word of the line when it is
\* given/when/then, else that of the nearest line above that starts with
\* one; empty when there is none
EditKeyword(lines, row) ==
    IF FirstToken(lines[row]) \in keywords
    THEN FirstToken(lines[row])
    ELSE NearestPrimary(lines, row - 1)

\* C15: on_query_completions returns every entry of `completions`, in a
\* list ascending by label, and leaves `completions` empty and `steps` as it
\* was; a query that finds `completions` empty returns the empty list, and
\* a save in between does not fill it.
C15_QueryDrainsMapping ==
    [][/\ OnQueryCompletions =>
              /\ Range(returned') = Range(completions)
              /\ Len(returned') = Cardinality(DOMAIN completions)
              /\ \A i, j \in 1..Len(returned') :
                     i < j => StrLess(returned'[i][1], returned'[j][1])
              /\ completions' = <<>>
              /\ steps' = steps
              /\ completions = <<>> => returned' = <<>>
       /\ OnPostSaveAsyncSerial => completions' = completions]_vars

\* A query has returned two entries in label order, the mapping is empty
\* and the catalog is still there
C15_Witness ==
    /\ Len(returned) = 2
    /\ StrLess(returned[1][1], returned[2][1])
    /\ completions = <<>>
    /\ steps # <<>>

\* C16: a query after an edit that got to the keyword lookup (next_char no
\* space or newline, a space in the stripped line) and for which there is
\* no primary keyword, on its line or above it, returns the empty list,
\* whatever edits and queries came before.
C16_NoKeywordReturnsEmpty ==
    [][(/\ OnQueryCompletions
        /\ l_view # <<>>
        /\ l_next \notin {SP, "\n"}
        /\ Len(SplitWS(l_view[1][l_view[2]])) > 1
        /\ EditKeyword(l_view[1], l_view[2]) = <<>>) => returned' = <<>>]_vars

\* The records of every catalog of the model
AllRecords == UNION {RunOver[files] : files \in DiskSet}

\* Whether the suggestion is one for a catalog record with the keyword of
\* the last edit whose text begins with the text typed on that edit's line
ProducedByLastEdit(sug) ==
    /\ l_view # <<>>
    /\ LET words == SplitWS(Strip(l_view[1][l_view[2]]))
           typed == JoinSP(DropFirst(words))
       IN  \E rec \in AllRecords :
              /\ rec[1] = EditKeyword(l_view[1], l_view[2])
              /\ sug[1] = rec[2] \o <<TAB>> \o rec[1]
              /\ Len(typed) <= Len(rec[2])
              /\ SubSeq(rec[2], 1, Len(typed)) = typed

\* C19: every entry on_query_completions returns is one the last
\* on_modified edit produced, for that edit's keyword and typed text.
C19_NoStaleEntries ==
    [][OnQueryCompletions =>
           \A i \in 1..Len(returned') : ProducedByLastEdit(returned'[i])]_vars

====
